---- MODULE Spec2Model ----
(***************************************************************************)
(* CoordinatorSwapQuoteConsumer (packages/asset-swapper, quote_consumers/  *)
(* coordinator_swap_quote_consumer.ts).                                    *)
(*                                                                         *)
(* The source file holds two definitions of the class:                     *)
(*   classDef = 1  lines  23-235: probes the taker's contract code, asks   *)
(*                 the coordinator wrapper for the approvals;              *)
(*   classDef = 2  lines 266-532: always signs through the provider and    *)
(*                 gathers the approvals itself (_getCoordinatorApprovals- *)
(*                 Async).                                                 *)
(* One run of the model is one invocation of executeSwapQuoteOrThrowAsync  *)
(* or getCalldataOrThrowAsync of one of the two definitions.  Every await  *)
(* on an external collaborator is one step; the outcome of the             *)
(* collaborator is chosen by the step.                                     *)
(***************************************************************************)
EXTENDS Integers, Sequences, FiniteSets, TLC

\* ------------------------------------------------------------------ bounds
MaxOrders == 2
MaxFeeOrders == 1
MaxSigs == 2

\* --------------------------------------------------------------- addresses
CoordinatorAddress == "0xc0ffee"
\* the same address written with other letter case: a different JS string
CoordinatorAddressUpper == "0xC0FFEE"
OtherSender == "0x000000"

FeeRecipients == {"frX", "frY"}
Endpoints == {"X", "Y"}

Undefined == "undefined"
EoaTaker == "0xaaaa01"
WalletTaker == "0xbbbb02"
MalformedTaker == "not-an-address"
TakerInputs == {Undefined, MalformedTaker, EoaTaker, WalletTaker}

\* message fragments the catch block of executeSwapQuoteOrThrowAsync looks for
SIGNATURE_REQUEST_DENIED == "SIGNATURE_REQUEST_DENIED"
CompleteFillFailed == "COMPLETE_FILL_FAILED"
OtherRevert == "ORDER_UNFILLABLE"

\* ------------------------------------------------------------- sequences
SeqToSet(s) == {s[i] : i \in 1..Len(s)}

RECURSIVE Flatten(_)
\* lodash flatten: one level, in order
Flatten(ss) == IF ss = <<>> THEN <<>> ELSE Head(ss) \o Flatten(Tail(ss))

RECURSIVE Fill(_, _)
\* Array(n).fill(x)
Fill(n, x) == IF n = 0 THEN <<>> ELSE <<x>> \o Fill(n - 1, x)

\* --------------------------------------------------------------- the input
\* A signed order: its position in [...quote.orders, ...quote.feeOrders], the
\* sender it names and the fee recipient whose coordinator server it registers.
OrderKinds ==
    {[senderAddress |-> CoordinatorAddress, feeRecipientAddress |-> "frX"],
     [senderAddress |-> CoordinatorAddress, feeRecipientAddress |-> "frY"],
     [senderAddress |-> CoordinatorAddressUpper, feeRecipientAddress |-> "frX"],
     [senderAddress |-> OtherSender, feeRecipientAddress |-> "frY"]}

SeqsUpTo(S, lo, hi) == UNION {[1..n -> S] : n \in lo..hi}

MkOrder(kind, i) ==
    [id |-> i, senderAddress |-> kind.senderAddress,
     feeRecipientAddress |-> kind.feeRecipientAddress]

\* the quotes: one to MaxOrders orders, up to MaxFeeOrders fee orders
Quotes ==
    {[orders |-> [i \in 1..Len(ks) |-> MkOrder(ks[i], i)],
      feeOrders |-> [i \in 1..Len(fs) |-> MkOrder(fs[i], Len(ks) + i)]] :
        ks \in SeqsUpTo(OrderKinds, 1, MaxOrders),
        fs \in SeqsUpTo(OrderKinds, 0, MaxFeeOrders)}

\* ------------------------------------------------------------------ errors
NoList == <<>>

MkError(name, message) ==
    [name |-> name, message |-> message,
     approvedOrders |-> NoList, cancellations |-> NoList, errors |-> NoList]

NoError == MkError("none", {})
AssertError == MkError("Error", {"Expected takerAddress to be of type ETHAddressHex"})
SignerDenied == MkError("Error", {SIGNATURE_REQUEST_DENIED, "User denied"})
AuthorityUnreachable == MkError("FetchError", {"request to coordinator server failed"})
FillFailed == "Failed to obtain approval signatures from some coordinator server(s)"

\* new CoordinatorServerError(message, approvedOrders, cancellations, errors)
CoordinatorServerError(message, approvedOrders, cancellations, errors) ==
    [name |-> "CoordinatorServerError", message |-> {message},
     approvedOrders |-> approvedOrders, cancellations |-> cancellations,
     errors |-> errors]

\* lodash includes(err.message, fragment)
includes(message, fragment) == fragment \in message

\* a variant that rethrows whatever it caught
CatchExecute_Rethrow(err) == err

\* a variant that looks for the revert reason first
CatchExecute_RevertFirst(err) ==
    IF includes(err.message, CompleteFillFailed)
    THEN MkError("Error", {"TRANSACTION_VALUE_TOO_LOW"})
    ELSE IF includes(err.message, SIGNATURE_REQUEST_DENIED)
         THEN MkError("Error", {SIGNATURE_REQUEST_DENIED})
         ELSE err

\* the catch block of executeSwapQuoteOrThrowAsync
CatchExecute(err) ==
    IF includes(err.message, SIGNATURE_REQUEST_DENIED)
    THEN MkError("Error", {SIGNATURE_REQUEST_DENIED})
    ELSE IF includes(err.message, CompleteFillFailed)
         THEN MkError("Error", {"TRANSACTION_VALUE_TOO_LOW"})
         ELSE err

\* --------------------------------------------------------- pure operators
\* assert.isETHAddressHex
isETHAddressHex(a) == a \in {EoaTaker, WalletTaker}

\* web3Wrapper.getContractCodeAsync: the codes the chain can hold at an address
ContractCodes(a) == IF a = WalletTaker THEN {"0x6080"} ELSE {"0x", "0x00"}

\* contractCode === '0x' || contractCode === '0x00'
HasNoCode(code) == code = "0x" \/ code = "0x00"

\* signatureUtils.convertToSignatureWithType('0x00', SignatureType.Wallet)
WalletMarkerSignature == "0x0004"
\* what the provider returns for an accepted signing request
EcSignature == "0x1b..03"

NoTx == [salt |-> 0, signerAddress |-> "", data |-> <<>>, signature |-> ""]

\* getSmartContractParamsOrThrowAsync + market*OrdersNoThrow.getABIEncoded-
\* TransactionData: the call data references quote.orders, never feeOrders
zeroExOperation(q) == [i \in 1..Len(q.orders) |-> q.orders[i].id]

\* const transaction: ZeroExTransaction = {salt, signerAddress, data, ...}
NewTransaction(q, taker, salt) ==
    [salt |-> salt, signerAddress |-> taker, data |-> zeroExOperation(q),
     signature |-> ""]

\* [...quote.orders, ...quote.feeOrders]
SignedOrders(q) == q.orders \o q.feeOrders

\* a variant without the filter: every order goes to its fee recipient's server
coordinatorOrders_All(signedOrders) == signedOrders

\* signedOrders.filter(o => o.senderAddress === coordinator.address)
coordinatorOrders(signedOrders) ==
    SelectSeq(signedOrders, LAMBDA o : o.senderAddress = CoordinatorAddress)

\* signedOrders.filter(o => o.senderAddress !== coordinator.address)
notCoordinatorOrders(signedOrders) ==
    SelectSeq(signedOrders, LAMBDA o : o.senderAddress # CoordinatorAddress)

\* the coordinator registry: fee recipient -> server endpoint
Registry == [a \in FeeRecipients |-> IF a = "frX" THEN "X" ELSE "Y"]

RECURSIVE Dedup(_)
\* the distinct elements of a sequence, in order of first appearance
Dedup(s) ==
    IF s = <<>> THEN <<>>
    ELSE LET r == Dedup(SubSeq(s, 1, Len(s) - 1))
         IN IF s[Len(s)] \in SeqToSet(r) THEN r ELSE Append(r, s[Len(s)])

\* Object.keys(serverEndpointsToOrders): insertion order
EndpointKeys(orders) ==
    Dedup([i \in 1..Len(orders) |-> Registry[orders[i].feeRecipientAddress]])

\* coordinator._mapServerEndpointsToOrdersAsync(coordinatorOrders)
mapServerEndpointsToOrders(orders) ==
    [keys |-> EndpointKeys(orders),
     groups |-> [e \in Endpoints |->
        SelectSeq(orders, LAMBDA o : Registry[o.feeRecipientAddress] = e)]]

NoMap == [keys |-> <<>>, groups |-> [e \in Endpoints |-> <<>>]]

\* --------------------------------------------------- coordinator responses
\* the k-th signature of the server at endpoint e, and the expiration it pairs
\* with it (k = 0: the one expiration shared by all its signatures)
Sig(e, k) == <<"sig", e, k>>
Exp(e, k) == <<"exp", e, k>>

\* expirationTimeSeconds of a raw approval: one value, or an array of values
Scalar(v) == [isArray |-> FALSE, items |-> <<v>>]
Array(vs) == [isArray |-> TRUE, items |-> vs]

\* the approval bodies a server can send: n signatures, however many orders it
\* was asked about (nothing in _getCoordinatorApprovalsAsync compares the two
\* numbers), and either one shared expiration or one expiration for each
\* signature
ApprovalBodies(e) ==
    {[signatures |-> [k \in 1..n |-> Sig(e, k)],
      expirationTimeSeconds |-> Scalar(Exp(e, 0))] : n \in 0..MaxSigs}
    \cup
    {[signatures |-> [k \in 1..n |-> Sig(e, k)],
      expirationTimeSeconds |-> Array([k \in 1..n |-> Exp(e, k)])] : n \in 0..MaxSigs}

ErrorBody == [signatures |-> <<>>, expirationTimeSeconds |-> Array(<<>>)]

\* the response _executeServerRequestAsync resolves with
\* (named: the orders an error response names as offending, none if it
\* names none)
ApprovalResponse(e, body) ==
    [isError |-> FALSE, coordinatorOperator |-> e, body |-> body, orders |-> NoList,
     named |-> NoList]
ErrorResponse(e) ==
    [isError |-> TRUE, coordinatorOperator |-> e, body |-> ErrorBody, orders |-> NoList,
     named |-> NoList]
\* an error response that names some of the orders of the transaction
NamingErrorResponse(e, named) == [ErrorResponse(e) EXCEPT !.named = named]

\* what a refusal of the server asked about `group` can name: nothing, or the
\* first order of the group alone
RefusalNames(group) == {NoList} \cup {<<group[i]>> : i \in {1} \cap DOMAIN group}

\* base.concat(arg): an argument that is an array has its elements appended
\* (one level, the elements themselves are left as they are), any other
\* argument is appended as one element
JsConcat(base, arg) ==
    IF arg.isArray THEN base \o arg.items ELSE Append(base, arg)

\* signatures are strings; expirationTimeSeconds is copied Array(n).fill(x)
\* times, whatever x is: a number, or an array of numbers
formatRawResponse(rawResponse) ==
    [signatures |-> JsConcat(<<>>, Array(rawResponse.signatures)),
     expirationTimeSeconds |->
        JsConcat(<<>>, Array(Fill(Len(rawResponse.signatures),
                                  rawResponse.expirationTimeSeconds)))]

\* allApprovals = approvalResponses.map(resp => formatRawResponse(resp.body))
allApprovals(approvals) ==
    [i \in 1..Len(approvals) |-> formatRawResponse(approvals[i].body)]

\* flatten(allApprovals.map(a => a.signatures))
allSignatures(approvals) ==
    Flatten([i \in 1..Len(approvals) |-> allApprovals(approvals)[i].signatures])

\* flatten(allApprovals.map(a => a.expirationTimeSeconds))
allExpirationTimes(approvals) ==
    Flatten([i \in 1..Len(approvals) |-> allApprovals(approvals)[i].expirationTimeSeconds])

\* approvedOrdersNested = approvalResponses.map(resp => map[resp.coordinatorOperator])
approvedOrdersNested(approvals, map) ==
    [i \in 1..Len(approvals) |-> map.groups[approvals[i].coordinatorOperator]]

\* a variant that forgets the orders that need no coordinator
approvedOrders_OnlyCoordinator(approvals, map, signedOrders) ==
    Flatten(approvedOrdersNested(approvals, map))

\* flatten(approvedOrdersNested.concat(notCoordinatorOrders))
approvedOrders(approvals, map, signedOrders) ==
    Flatten(approvedOrdersNested(approvals, map)) \o notCoordinatorOrders(signedOrders)

\* a variant that looks the orders up by the position of the response, not by
\* the endpoint the response came from
errorsWithOrders_ByPosition(errors, map) ==
    [i \in 1..Len(errors) |-> [errors[i] EXCEPT !.orders = map.groups[map.keys[i]]]]

\* errorResponses.map(resp => ({...resp, orders: map[resp.coordinatorOperator]}))
errorsWithOrders(errors, map) ==
    [i \in 1..Len(errors) |->
        [errors[i] EXCEPT !.orders = map.groups[errors[i].coordinatorOperator]]]

NoApprovals == [coordinatorApprovalSignatures |-> <<>>, coordinatorExpirationTimes |-> <<>>]

\* ------------------------------------------------------------------- state
VARIABLES
    classDef,          \* which definition of the class runs: 1 or 2
    method,            \* "execute" or "getCalldata"
    quote,             \* the SwapQuote: orders and feeOrders
    takerAddress,      \* opts.takerAddress
    pc,                \* the await the invocation has reached
    transaction,       \* the (signed) ZeroExTransaction, NoTx before it exists
    saltsDrawn,        \* calls of generatePseudoRandomSalt
    contractCode,      \* what getContractCodeAsync returned ("" before)
    serverEndpointsToOrders,   \* the endpoint -> orders map of this run
    pending,           \* the endpoints the for-loop has still to visit
    inFlight,          \* the endpoints with a request awaiting its response
    approvalResponses,
    errorResponses,
    approvals,         \* what the aggregation returned
    ioLog,             \* every call made on an external collaborator, in order
    answers,           \* what each coordinator server did with its request
    outcome            \* how the invocation ended

vars == <<classDef, method, quote, takerAddress, pc, transaction, saltsDrawn,
          contractCode, serverEndpointsToOrders, pending, inFlight,
          approvalResponses, errorResponses, approvals, ioLog, answers, outcome>>

inputs == <<classDef, method, quote, takerAddress>>
fanout == <<serverEndpointsToOrders, pending, inFlight, approvalResponses, errorResponses>>

\* a server's answer: "none" (not asked, or not answered yet), "approved" with
\* the body it sent, "refused", or "failed" (timeout, transport failure)
Answer(verdict, body) == [verdict |-> verdict, body |-> body]
NoAnswers == [e \in Endpoints |-> Answer("none", ErrorBody)]

Pending == [kind |-> "pending", error |-> NoError, cause |-> NoError,
            txHash |-> "", calldata |-> <<>>]

IoEvent(op, target, tx, origin) == [op |-> op, target |-> target, tx |-> tx, origin |-> origin]

Log(op, target, tx, origin) == ioLog' = Append(ioLog, IoEvent(op, target, tx, origin))

Init ==
    /\ classDef \in {1, 2}
    /\ method \in {"execute", "getCalldata"}
    /\ quote \in Quotes
    /\ takerAddress \in TakerInputs
    /\ pc = IF method = "execute" THEN "validate" ELSE "buildTx"
    /\ transaction = NoTx
    /\ saltsDrawn = 0
    /\ contractCode = ""
    /\ serverEndpointsToOrders = NoMap
    /\ pending = <<>>
    /\ inFlight = {}
    /\ approvalResponses = <<>>
    /\ errorResponses = <<>>
    /\ approvals = NoApprovals
    /\ ioLog = <<>>
    /\ answers = NoAnswers
    /\ outcome = Pending

\* an error thrown outside the try block, or in getCalldataOrThrowAsync
Rejected(err, cause) ==
    [kind |-> "threw", error |-> err, cause |-> cause, txHash |-> "", calldata |-> <<>>]

\* an error thrown under the try block of executeSwapQuoteOrThrowAsync passes
\* through its catch block; getCalldataOrThrowAsync has no catch block
Throw(err) ==
    /\ outcome' = Rejected(IF method = "execute" THEN CatchExecute(err) ELSE err, err)
    /\ pc' = "done"

\* executeSwapQuoteOrThrowAsync, the assertions before the try block
ValidateOpts ==
    /\ pc = "validate"
    /\ method = "execute"
    /\ IF takerAddress # Undefined /\ ~isETHAddressHex(takerAddress)
       THEN /\ outcome' = Rejected(AssertError, AssertError)
            /\ pc' = "done"
       ELSE /\ pc' = "buildTx"
            /\ UNCHANGED outcome
    /\ UNCHANGED <<answers, inputs, fanout, transaction, saltsDrawn, contractCode, approvals, ioLog>>

\* a variant without assert.isETHAddressHex('opts.takerAddress', takerAddress)
BuildTransaction_NoAssert ==
    /\ pc = "buildTx"
    /\ saltsDrawn' = saltsDrawn + 1
    /\ transaction' = NewTransaction(quote, takerAddress, saltsDrawn + 1)
    /\ pc' = IF classDef = 1 THEN "probe" ELSE "sign"
    /\ UNCHANGED <<answers, inputs, fanout, contractCode, approvals, ioLog, outcome>>

\* a variant that hands the transaction on without signing it
BuildTransaction_Unsigned ==
    /\ pc = "buildTx"
    /\ IF ~isETHAddressHex(takerAddress)
       THEN /\ Throw(AssertError)
            /\ UNCHANGED <<transaction, saltsDrawn>>
       ELSE /\ saltsDrawn' = saltsDrawn + 1
            /\ transaction' = NewTransaction(quote, takerAddress, saltsDrawn + 1)
            /\ pc' = "haveTx"
            /\ UNCHANGED outcome
    /\ UNCHANGED <<answers, inputs, fanout, contractCode, approvals, ioLog>>

\* _getCoordinatorZeroExTransactionAsync up to the transaction object
BuildTransaction ==
    /\ pc = "buildTx"
    /\ IF ~isETHAddressHex(takerAddress)
       THEN /\ Throw(AssertError)
            /\ UNCHANGED <<transaction, saltsDrawn>>
       ELSE /\ saltsDrawn' = saltsDrawn + 1
            /\ transaction' = NewTransaction(quote, takerAddress, saltsDrawn + 1)
            /\ pc' = IF classDef = 1 THEN "probe" ELSE "sign"
            /\ UNCHANGED outcome
    /\ UNCHANGED <<answers, inputs, fanout, contractCode, approvals, ioLog>>

\* classDef 1: getContractCodeAsync(takerAddress) and the branch on its result
ProbeContractCode ==
    /\ pc = "probe"
    /\ classDef = 1
    /\ \E code \in ContractCodes(takerAddress) :
        /\ contractCode' = code
        /\ Log("getContractCode", takerAddress, transaction, "")
        /\ IF HasNoCode(code)
           THEN /\ pc' = "sign"
                /\ UNCHANGED transaction
           ELSE /\ transaction' = [transaction EXCEPT !.signature = WalletMarkerSignature]
                /\ pc' = "haveTx"
    /\ UNCHANGED <<answers, inputs, fanout, saltsDrawn, approvals, outcome>>

\* signatureUtils.ecSignTransactionAsync(provider, transaction, takerAddress),
\* the signer accepts
SignAccepted ==
    /\ pc = "sign"
    /\ Log("sign", takerAddress, transaction, "")
    /\ transaction' = [transaction EXCEPT !.signature = EcSignature]
    /\ pc' = "haveTx"
    /\ UNCHANGED <<answers, inputs, fanout, saltsDrawn, contractCode, approvals, outcome>>

\* ... the signer refuses
SignDenied ==
    /\ pc = "sign"
    /\ Log("sign", takerAddress, transaction, "")
    /\ Throw(SignerDenied)
    /\ UNCHANGED <<answers, inputs, fanout, transaction, saltsDrawn, contractCode, approvals>>

\* the errors the dry run and the submission can fail with
SettlementErrors ==
    {MkError("Error", {CompleteFillFailed}),
     MkError("Error", {OtherRevert}),
     MkError("Error", {SIGNATURE_REQUEST_DENIED, "User denied transaction signature"}),
     MkError("Error", {SIGNATURE_REQUEST_DENIED, CompleteFillFailed})}

\* classDef 2, _getCoordinatorApprovalsAsync: the filter and the endpoint map
PartitionOrders ==
    /\ pc = "haveTx"
    /\ classDef = 2
    /\ LET map == mapServerEndpointsToOrders(coordinatorOrders(SignedOrders(quote)))
       IN /\ serverEndpointsToOrders' = map
          /\ pending' = map.keys
    /\ Log("mapServerEndpointsToOrders", "coordinator", transaction, "")
    /\ pc' = "fanout"
    /\ UNCHANGED <<answers, inputs, transaction, saltsDrawn, contractCode, inFlight,
                   approvalResponses, errorResponses, approvals, outcome>>

\* a variant that names the coordinator contract as the transaction origin
SendRequest_OriginCoordinator ==
    /\ pc = "fanout"
    /\ pending # <<>>
    /\ inFlight = {}
    /\ Log("request", Head(pending), transaction, CoordinatorAddress)
    /\ inFlight' = {Head(pending)}
    /\ UNCHANGED <<answers, inputs, pc, transaction, saltsDrawn, contractCode,
                   serverEndpointsToOrders, pending, approvalResponses,
                   errorResponses, approvals, outcome>>

\* the loop without the await: a request leaves while others are in flight
SendRequest_NoAwait ==
    /\ pc = "fanout"
    /\ \E i \in DOMAIN pending :
        /\ pending[i] \notin inFlight
        /\ Log("request", pending[i], transaction, transaction.signerAddress)
        /\ inFlight' = inFlight \cup {pending[i]}
    /\ UNCHANGED <<answers, inputs, pc, transaction, saltsDrawn, contractCode,
                   serverEndpointsToOrders, pending, approvalResponses,
                   errorResponses, approvals, outcome>>

\* one pass of the for-loop, up to the await: the request leaves
SendRequest ==
    /\ pc = "fanout"
    /\ pending # <<>>
    /\ inFlight = {}
    /\ Log("request", Head(pending), transaction, transaction.signerAddress)
    /\ inFlight' = {Head(pending)}
    /\ UNCHANGED <<answers, inputs, pc, transaction, saltsDrawn, contractCode,
                   serverEndpointsToOrders, pending, approvalResponses,
                   errorResponses, approvals, outcome>>

\* the await resolves with a response that is no error
ReceiveApproval ==
    /\ pc = "fanout"
    /\ \E e \in inFlight : \E body \in ApprovalBodies(e) :
        /\ approvalResponses' = Append(approvalResponses, ApprovalResponse(e, body))
        /\ answers' = [answers EXCEPT ![e] = Answer("approved", body)]
        /\ inFlight' = inFlight \ {e}
        /\ pending' = Tail(pending)
    /\ UNCHANGED <<inputs, pc, transaction, saltsDrawn, contractCode,
                   serverEndpointsToOrders, errorResponses, approvals, ioLog, outcome>>

\* the await resolves with response.isError
ReceiveRefusal ==
    /\ pc = "fanout"
    /\ \E e \in inFlight : \E named \in RefusalNames(serverEndpointsToOrders.groups[e]) :
        /\ errorResponses' = Append(errorResponses, NamingErrorResponse(e, named))
        /\ answers' = [answers EXCEPT ![e] = Answer("refused", ErrorBody)]
        /\ inFlight' = inFlight \ {e}
        /\ pending' = Tail(pending)
    /\ UNCHANGED <<inputs, pc, transaction, saltsDrawn, contractCode,
                   serverEndpointsToOrders, approvalResponses, approvals, ioLog, outcome>>

\* the await rejects: the request timed out or failed in transport.  Nothing
\* in the loop catches it.
RequestFails ==
    /\ pc = "fanout"
    /\ \E e \in inFlight :
        /\ inFlight' = inFlight \ {e}
        /\ answers' = [answers EXCEPT ![e] = Answer("failed", ErrorBody)]
        /\ Throw(AuthorityUnreachable)
    /\ UNCHANGED <<inputs, transaction, saltsDrawn, contractCode,
                   serverEndpointsToOrders, pending, approvalResponses,
                   errorResponses, approvals, ioLog>>

\* after the loop, errorResponses.length === 0
ReturnApprovals ==
    /\ pc = "fanout"
    /\ pending = <<>>
    /\ inFlight = {}
    /\ errorResponses = <<>>
    /\ approvals' = [coordinatorApprovalSignatures |-> allSignatures(approvalResponses),
                     coordinatorExpirationTimes |-> allExpirationTimes(approvalResponses)]
    /\ pc' = IF method = "execute" THEN "dryRun" ELSE "encode"
    /\ UNCHANGED <<answers, inputs, fanout, transaction, saltsDrawn, contractCode, ioLog, outcome>>

\* after the loop, the else branch: throw new CoordinatorServerError(...)
ThrowFillFailed ==
    /\ pc = "fanout"
    /\ pending = <<>>
    /\ inFlight = {}
    /\ errorResponses # <<>>
    /\ Throw(CoordinatorServerError(
                FillFailed,
                approvedOrders(approvalResponses, serverEndpointsToOrders, SignedOrders(quote)),
                <<>>,
                errorsWithOrders(errorResponses, serverEndpointsToOrders)))
    /\ UNCHANGED <<answers, inputs, fanout, transaction, saltsDrawn, contractCode, approvals, ioLog>>

\* classDef 1: this._contractWrappers.coordinator.getCoordinatorApprovalsAsync,
\* the aggregation of the coordinator wrapper, as one step: every endpoint of
\* the map answers, an endpoint out of reach counts as a refusal
WrapperVerdicts == {"approve", "refuse", "unreachable"}

WrapperResponse(e, verdict, map) ==
    IF verdict = "approve"
    THEN ApprovalResponse(e, [signatures |-> [k \in 1..Len(map.groups[e]) |-> Sig(e, k)],
                              expirationTimeSeconds |-> Scalar(Exp(e, 0))])
    ELSE ErrorResponse(e)

getCoordinatorApprovalsAsync ==
    /\ pc = "haveTx"
    /\ classDef = 1
    /\ LET map == mapServerEndpointsToOrders(coordinatorOrders(SignedOrders(quote)))
           keys == map.keys
       IN \E v \in [SeqToSet(keys) -> WrapperVerdicts] :
            LET resps == [i \in 1..Len(keys) |-> WrapperResponse(keys[i], v[keys[i]], map)]
                oks == SelectSeq(resps, LAMBDA r : ~r.isError)
                errs == SelectSeq(resps, LAMBDA r : r.isError)
            IN /\ answers' = [e \in Endpoints |->
                    IF e \in SeqToSet(keys)
                    THEN Answer(IF v[e] = "approve" THEN "approved"
                                ELSE IF v[e] = "refuse" THEN "refused" ELSE "failed",
                                WrapperResponse(e, v[e], map).body)
                    ELSE answers[e]]
               /\ ioLog' = ioLog \o [i \in 1..Len(keys) |->
                              IoEvent("request", keys[i], transaction, transaction.signerAddress)]
               /\ IF errs = <<>>
                  THEN /\ approvals' = [coordinatorApprovalSignatures |-> allSignatures(oks),
                                        coordinatorExpirationTimes |-> allExpirationTimes(oks)]
                       /\ pc' = IF method = "execute" THEN "dryRun" ELSE "encode"
                       /\ UNCHANGED outcome
                  ELSE /\ Throw(CoordinatorServerError(
                                  FillFailed, approvedOrders(oks, map, SignedOrders(quote)),
                                  <<>>, errorsWithOrders(errs, map)))
                       /\ UNCHANGED approvals
    /\ UNCHANGED <<inputs, fanout, transaction, saltsDrawn, contractCode>>

\* a variant that builds the transaction anew (a fresh salt) after the dry run
DryRunSucceeds_Rebuilt ==
    /\ pc = "dryRun"
    /\ Log("callAsync", "coordinator", transaction, transaction.signerAddress)
    /\ saltsDrawn' = saltsDrawn + 1
    /\ transaction' = [transaction EXCEPT !.salt = saltsDrawn + 1]
    /\ pc' = "submit"
    /\ UNCHANGED <<answers, inputs, fanout, contractCode, approvals, outcome>>

\* coordinator.executeTransaction.callAsync(...): the dry run
DryRunSucceeds ==
    /\ pc = "dryRun"
    /\ Log("callAsync", "coordinator", transaction, transaction.signerAddress)
    /\ pc' = "submit"
    /\ UNCHANGED <<answers, inputs, fanout, transaction, saltsDrawn, contractCode, approvals, outcome>>

DryRunFails ==
    /\ pc = "dryRun"
    /\ Log("callAsync", "coordinator", transaction, transaction.signerAddress)
    /\ \E err \in SettlementErrors : Throw(err)
    /\ UNCHANGED <<answers, inputs, fanout, transaction, saltsDrawn, contractCode, approvals>>

\* a variant that submits without waiting for the dry run
SubmitSucceeds_NoDryRun ==
    /\ pc \in {"dryRun", "submit"}
    /\ Log("sendTransactionAsync", "coordinator", transaction, transaction.signerAddress)
    /\ outcome' = [Pending EXCEPT !.kind = "returned", !.txHash = "0xhash"]
    /\ pc' = "done"
    /\ UNCHANGED <<answers, inputs, fanout, transaction, saltsDrawn, contractCode, approvals>>

\* coordinator.executeTransaction.sendTransactionAsync(...); return txHash
SubmitSucceeds ==
    /\ pc = "submit"
    /\ Log("sendTransactionAsync", "coordinator", transaction, transaction.signerAddress)
    /\ outcome' = [Pending EXCEPT !.kind = "returned", !.txHash = "0xhash"]
    /\ pc' = "done"
    /\ UNCHANGED <<answers, inputs, fanout, transaction, saltsDrawn, contractCode, approvals>>

SubmitFails ==
    /\ pc = "submit"
    /\ Log("sendTransactionAsync", "coordinator", transaction, transaction.signerAddress)
    /\ \E err \in SettlementErrors : Throw(err)
    /\ UNCHANGED <<answers, inputs, fanout, transaction, saltsDrawn, contractCode, approvals>>

\* getCalldataOrThrowAsync: executeTransaction.getABIEncodedTransactionData(
\*   tx, tx.signerAddress, tx.signature, expirationTimes, signatures)
EncodeCalldata ==
    /\ pc = "encode"
    /\ outcome' = [Pending EXCEPT !.kind = "returned",
                     !.calldata = <<transaction, transaction.signerAddress,
                                    transaction.signature,
                                    approvals.coordinatorExpirationTimes,
                                    approvals.coordinatorApprovalSignatures>>]
    /\ pc' = "done"
    /\ UNCHANGED <<answers, inputs, fanout, transaction, saltsDrawn, contractCode, approvals, ioLog>>

Next ==
    \/ ValidateOpts
    \/ BuildTransaction
    \/ ProbeContractCode
    \/ SignAccepted
    \/ SignDenied
    \/ PartitionOrders
    \/ SendRequest
    \/ ReceiveApproval
    \/ ReceiveRefusal
    \/ RequestFails
    \/ ReturnApprovals
    \/ ThrowFillFailed
    \/ getCoordinatorApprovalsAsync
    \/ DryRunSucceeds
    \/ DryRunFails
    \/ SubmitSucceeds
    \/ SubmitFails
    \/ EncodeCalldata

Spec == Init /\ [][Next]_vars

\* ======================================================== the properties
Has(op) == \E i \in 1..Len(ioLog) : ioLog[i].op = op
Count(op) == Cardinality({i \in 1..Len(ioLog) : ioLog[i].op = op})
RequestsTo(e) == Cardinality({i \in 1..Len(ioLog) : ioLog[i].op = "request" /\ ioLog[i].target = e})

\* the orders of the batch, as the caller passed them
Batch == SignedOrders(quote)
\* the orders of the batch that name the coordinator and register endpoint e
OrdersOf(e) ==
    SelectSeq(Batch, LAMBDA o : o.senderAddress = CoordinatorAddress
                                /\ Registry[o.feeRecipientAddress] = e)
\* the orders of the batch that do not name the coordinator
OrdersOfNone == SelectSeq(Batch, LAMBDA o : o.senderAddress # CoordinatorAddress)

\* _getCoordinatorApprovalsAsync of classDef 2 has thrown its CoordinatorServerError
EndedInFillFailed ==
    /\ classDef = 2
    /\ pc = "done"
    /\ outcome.kind = "threw"
    /\ outcome.cause.name = "CoordinatorServerError"

\* the orders attached to the refusals of the failure report, one list
RefusedOrders == Flatten([i \in 1..Len(outcome.cause.errors) |-> outcome.cause.errors[i].orders])

Occurrences(seq, x) == Cardinality({i \in 1..Len(seq) : seq[i] = x})

\* C1: when the aggregation ends in the multi-authority failure, every order
\* of the batch appears exactly once across the approved-orders list and the
\* order lists of the refusals: none in both, none twice, none missing.
C1_EveryOrderExactlyOnce ==
    EndedInFillFailed =>
        LET out == outcome.cause.approvedOrders \o RefusedOrders
        IN /\ Len(out) = Len(Batch)
           /\ \A i \in 1..Len(Batch) : Occurrences(out, Batch[i]) = 1

\* a failure report with approved coordinator orders, approved orders that
\* need no coordinator, and refused orders
C1_Witness ==
    /\ EndedInFillFailed
    /\ Len(approvalResponses) = 1
    /\ Len(outcome.cause.approvedOrders) = 2
    /\ Len(RefusedOrders) = 1
    /\ OrdersOfNone # <<>>

\* C2: if exactly one of two queried authorities refuses and the other
\* approves, the approved-orders list holds exactly the orders of the approving
\* authority and the orders that need no authority, and the refusal list has
\* one entry, of the refusing authority, with that authority's orders.
C2_OneOfTwoRefuses ==
    \A a, r \in Endpoints :
        ( /\ EndedInFillFailed
          /\ a # r
          /\ RequestsTo(a) = 1 /\ RequestsTo(r) = 1
          /\ answers[a].verdict = "approved"
          /\ answers[r].verdict = "refused" )
        => /\ outcome.cause.approvedOrders = OrdersOf(a) \o OrdersOfNone
           /\ Len(outcome.cause.errors) = 1
           /\ outcome.cause.errors[1].coordinatorOperator = r
           /\ outcome.cause.errors[1].orders = OrdersOf(r)
           /\ outcome.cause.cancellations = <<>>

\* the first authority asked refuses, the second approves, and an order needs
\* no authority
C2_Witness ==
    /\ EndedInFillFailed
    /\ Len(serverEndpointsToOrders.keys) = 2
    /\ answers[serverEndpointsToOrders.keys[1]].verdict = "refused"
    /\ answers[serverEndpointsToOrders.keys[2]].verdict = "approved"
    /\ OrdersOfNone # <<>>

\* _getCoordinatorApprovalsAsync of classDef 2 has returned its lists
AggregationReturned ==
    /\ classDef = 2
    /\ Has("mapServerEndpointsToOrders")
    /\ \/ pc \in {"dryRun", "submit", "encode"}
       \/ pc = "done" /\ (outcome.kind = "returned" \/ Has("callAsync"))

\* the endpoints in the order the requests of this run left
RequestOrder ==
    LET reqs == SelectSeq(ioLog, LAMBDA ev : ev.op = "request")
    IN [i \in 1..Len(reqs) |-> reqs[i].target]

\* the signature lists the servers sent, concatenated in request order
SignaturesSent ==
    LET requested == RequestOrder
    IN Flatten([i \in 1..Len(requested) |-> answers[requested[i]].body.signatures])

\* the orders of the batch the filter of the partition keeps
OrdersNeedingApproval == SelectSeq(Batch, LAMBDA o : o.senderAddress = CoordinatorAddress)

\* an address with its letters in lower case
CaseNormalized(a) == IF a = CoordinatorAddressUpper THEN CoordinatorAddress ELSE a
\* the orders of the batch that require approval: their sender address is the
\* coordinator address, compared case-normalized
OrdersRequiringApproval ==
    SelectSeq(Batch, LAMBDA o :
        CaseNormalized(o.senderAddress) = CaseNormalized(CoordinatorAddress))

\* C3 as claimed: if every queried authority approves, the aggregated signature
\* list has as many entries as there are orders requiring approval, and is the
\* concatenation of the authorities' signature lists in iteration order.
C3_LengthAndOrder ==
    AggregationReturned =>
        /\ Len(approvals.coordinatorApprovalSignatures) = Len(OrdersRequiringApproval)
        /\ approvals.coordinatorApprovalSignatures = SignaturesSent

\* what the aggregation does give: the concatenation in iteration order, which
\* has one entry for each order the filter of the partition kept when every
\* server sent one signature for each order it was asked about
AggregatedForKeptOrders ==
    AggregationReturned =>
        /\ approvals.coordinatorApprovalSignatures = SignaturesSent
        /\ ( (\A e \in Endpoints : RequestsTo(e) = 1 =>
                Len(answers[e].body.signatures) = Len(OrdersOf(e)))
             => Len(approvals.coordinatorApprovalSignatures) = Len(OrdersNeedingApproval) )

\* no order of the batch names the coordinator as its sender
NoOrderNamesCoordinator == \A i \in 1..Len(Batch) : Batch[i].senderAddress # CoordinatorAddress

\* _getCoordinatorApprovalsAsync of classDef 2 has been entered
AggregationStarted == classDef = 2 /\ Has("mapServerEndpointsToOrders")

\* C4: if no order of the batch names the coordinator, the aggregation issues
\* no approval request, cannot fail (neither with a refusal nor with an
\* authority out of reach), and returns empty signature and expiration lists.
C4_NoAuthorityNeeded ==
    (AggregationStarted /\ NoOrderNamesCoordinator) =>
        /\ ~Has("request")
        /\ pc = "fanout" => (pending = <<>> /\ inFlight = {} /\ errorResponses = <<>>)
        /\ pc # "fanout" => AggregationReturned
        /\ AggregationReturned =>
             /\ approvals.coordinatorApprovalSignatures = <<>>
             /\ approvals.coordinatorExpirationTimes = <<>>
        /\ outcome.cause.name \notin {"CoordinatorServerError", "FetchError"}

\* getCalldataOrThrowAsync has returned for a batch of two orders and a fee
\* order of which none names the coordinator
C4_Witness ==
    /\ AggregationReturned
    /\ NoOrderNamesCoordinator
    /\ Len(Batch) = 3
    /\ method = "getCalldata"
    /\ outcome.kind = "returned"

\* C5 as claimed: a request that times out or fails in transport is treated as
\* a refusal of that authority: the remaining authorities are still queried and
\* the batch ends in the multi-authority failure, whose refusals name it.
C5_UnreachableIsRefusal ==
    \A e \in Endpoints :
        (classDef = 2 /\ answers[e].verdict = "failed" /\ pc = "done") =>
            /\ outcome.cause.name = "CoordinatorServerError"
            /\ \E i \in 1..Len(outcome.cause.errors) :
                    outcome.cause.errors[i].coordinatorOperator = e
            /\ \A k \in SeqToSet(serverEndpointsToOrders.keys) : RequestsTo(k) = 1

\* the wallets for which executable code is present at the taker address
CodePresent == \A code \in ContractCodes(takerAddress) : ~HasNoCode(code)

\* C6 as claimed: with code present at the taker address the external signer
\* is never called and the transaction carries the wallet marker signature;
\* the signer is called only for an address without code.
C6_NoSigningForContracts ==
    (isETHAddressHex(takerAddress) /\ CodePresent) =>
        /\ ~Has("sign")
        /\ transaction.signature \in {"", WalletMarkerSignature}
        /\ pc \in {"haveTx", "fanout", "dryRun", "submit", "encode"} =>
                transaction.signature = WalletMarkerSignature

\* C7 as claimed: in one aggregation every endpoint with a non-empty order
\* group receives exactly one approval request, each request yields one
\* response, and each response is in exactly one of approvalResponses and
\* errorResponses: after the fan-out the two lists have one entry per endpoint.
C7_OneRequestOneResponse ==
    AggregationStarted =>
        /\ \A e \in Endpoints : RequestsTo(e) <= 1
        /\ \A e \in Endpoints : OrdersOf(e) = <<>> => RequestsTo(e) = 0
        /\ pc # "fanout" =>
            /\ \A e \in Endpoints : OrdersOf(e) # <<>> =>
                    /\ RequestsTo(e) = 1
                    /\ answers[e].verdict \in {"approved", "refused"}
                    /\ Occurrences([i \in 1..Len(approvalResponses) |->
                                       approvalResponses[i].coordinatorOperator], e)
                       + Occurrences([i \in 1..Len(errorResponses) |->
                                       errorResponses[i].coordinatorOperator], e) = 1
            /\ Len(approvalResponses) + Len(errorResponses)
                  = Cardinality({e \in Endpoints : OrdersOf(e) # <<>>})

\* C8 as claimed: whenever an authority refuses, executeSwapQuoteOrThrowAsync
\* fails with the CoordinatorServerError carrying the approved orders, no
\* cancellations and the refusals with their orders; the caller gets that very
\* error, and neither callAsync nor sendTransactionAsync is called.
C8_RefusalIsStructuredError ==
    ( /\ classDef = 2
      /\ method = "execute"
      /\ pc = "done"
      /\ \E e \in Endpoints : answers[e].verdict = "refused" )
    => /\ outcome.kind = "threw"
       /\ outcome.error.name = "CoordinatorServerError"
       /\ outcome.error = outcome.cause
       /\ outcome.error.cancellations = <<>>
       /\ \A e \in Endpoints : answers[e].verdict = "refused" =>
             \E i \in 1..Len(outcome.error.errors) :
                /\ outcome.error.errors[i].coordinatorOperator = e
                /\ outcome.error.errors[i].orders = OrdersOf(e)
       /\ ~Has("callAsync")
       /\ ~Has("sendTransactionAsync")

\* C9: with a taker address that is missing or no well-formed address, both
\* methods fail before any I/O: no contract-code probe, no signing request, no
\* endpoint lookup or approval request, no dry run and no submission, and no
\* transaction is built.
C9_InvalidAddressBeforeIO ==
    ~isETHAddressHex(takerAddress) =>
        /\ ioLog = <<>>
        /\ transaction = NoTx
        /\ saltsDrawn = 0
        /\ pc \in {"validate", "buildTx", "done"}
        /\ pc = "done" => (outcome.kind = "threw" /\ outcome.error = AssertError)

\* executeSwapQuoteOrThrowAsync without opts.takerAddress: the assertion of
\* _getCoordinatorZeroExTransactionAsync has thrown
C9_Witness ==
    /\ takerAddress = Undefined
    /\ method = "execute"
    /\ pc = "done"
    /\ outcome.kind = "threw"

\* C10: if the signer refuses, executeSwapQuoteOrThrowAsync fails with
\* SignatureRequestDenied at once: one signing request was made, it is the
\* last call on any collaborator, and no approval request, dry run or
\* submission follows.
C10_SignerDenialIsFinal ==
    (method = "execute" /\ outcome.cause = SignerDenied) =>
        /\ pc = "done"
        /\ outcome.kind = "threw"
        /\ outcome.error = MkError("Error", {SIGNATURE_REQUEST_DENIED})
        /\ Count("sign") = 1
        /\ ioLog[Len(ioLog)].op = "sign"
        /\ ~Has("mapServerEndpointsToOrders")
        /\ ~Has("request")
        /\ ~Has("callAsync")
        /\ ~Has("sendTransactionAsync")

\* the signer has refused the transaction of executeSwapQuoteOrThrowAsync
C10_Witness ==
    /\ method = "execute"
    /\ outcome.cause = SignerDenied
    /\ pc = "done"
    /\ Count("sign") = 1

\* the calls that carry the signed transaction
CarriesTransaction(op) == op \in {"request", "callAsync", "sendTransactionAsync"}

\* C11: one invocation creates one transaction (one salt, at most one signing
\* request), and every approval request, the dry run, the submission and the
\* encoded calldata carry that same signed transaction: same salt, signer
\* address, data and signature.
C11_OneTransaction ==
    /\ saltsDrawn <= 1
    /\ Count("sign") <= 1
    /\ Count("getContractCode") <= 1
    /\ \A i \in 1..Len(ioLog) : CarriesTransaction(ioLog[i].op) =>
            /\ ioLog[i].tx = transaction
            /\ transaction.salt = 1
            /\ transaction.signerAddress = takerAddress
            /\ transaction.data = zeroExOperation(quote)
            /\ transaction.signature \in {EcSignature, WalletMarkerSignature}
    /\ outcome.calldata # <<>> =>
            /\ outcome.calldata[1] = transaction
            /\ \A i \in 1..Len(ioLog) : ioLog[i].op = "request" => ioLog[i].tx = outcome.calldata[1]

\* executeSwapQuoteOrThrowAsync of classDef 2 has asked two servers, run the
\* dry run and submitted
C11_Witness ==
    /\ classDef = 2
    /\ method = "execute"
    /\ outcome.kind = "returned"
    /\ Count("request") = 2
    /\ Count("callAsync") = 1
    /\ Count("sendTransactionAsync") = 1

\* C12 as claimed: a refusal of one authority does not abort the requests to
\* the others: every authority of the endpoint map is still queried, and the
\* batch fails only after every authority has responded, with a failure report
\* that holds the response of every queried authority.
C12_RefusalDoesNotAbort ==
    ( /\ classDef = 2
      /\ \E e \in Endpoints : answers[e].verdict = "refused" )
    => /\ pc \in {"fanout", "done"}
       /\ pc = "done" =>
            /\ outcome.kind = "threw"
            /\ \A k \in SeqToSet(serverEndpointsToOrders.keys) :
                  /\ RequestsTo(k) = 1
                  /\ answers[k].verdict \in {"approved", "refused"}
            /\ outcome.cause.name = "CoordinatorServerError"
            /\ Len(outcome.cause.errors) + Len(approvalResponses)
                  = Len(serverEndpointsToOrders.keys)
            /\ \A k \in SeqToSet(serverEndpointsToOrders.keys) :
                  answers[k].verdict = "refused" =>
                     \E i \in 1..Len(outcome.cause.errors) :
                        outcome.cause.errors[i].coordinatorOperator = k

\* the expiration the server at endpoint e paired with its k-th signature
PairedExpiration(e, k) ==
    LET x == answers[e].body.expirationTimeSeconds
    IN IF x.isArray THEN x.items[k] ELSE x.items[1]

\* C13 as claimed: when all approve, whether a payload carries one shared
\* expiration or a list of one expiration per signature, the aggregated
\* expiration list is as long as the aggregated signature list and its i-th
\* entry is the expiration the issuing server paired with the i-th signature.
C13_ExpirationsAligned ==
    AggregationReturned =>
        LET sigs == approvals.coordinatorApprovalSignatures
            exps == approvals.coordinatorExpirationTimes
        IN /\ Len(exps) = Len(sigs)
           /\ \A i \in 1..Len(sigs) :
                i <= Len(exps) => exps[i] = Scalar(PairedExpiration(sigs[i][2], sigs[i][3]))

\* the refusal names a subset narrower than the group of its authority
NamesNarrowerSubset(refusal) ==
    /\ refusal.named # <<>>
    /\ SeqToSet(refusal.named) \subseteq SeqToSet(OrdersOf(refusal.coordinatorOperator))
    /\ Len(refusal.named) < Len(OrdersOf(refusal.coordinatorOperator))

\* C14 as claimed: the orders reported for a refusal are all orders of the
\* refusing authority's group, unless the refusal names a narrower subset of
\* orders: then only the named orders are reported for that authority.
C14_RefusedOrdersNarrowed ==
    EndedInFillFailed =>
        \A i \in 1..Len(outcome.cause.errors) :
            LET refusal == outcome.cause.errors[i]
            IN IF NamesNarrowerSubset(refusal)
               THEN refusal.orders = refusal.named
               ELSE refusal.orders = OrdersOf(refusal.coordinatorOperator)

\* the endpoints whose response the loop has stored, in the order stored
ApprovedEndpoints == [i \in 1..Len(approvalResponses) |-> approvalResponses[i].coordinatorOperator]
RefusedEndpoints == [i \in 1..Len(errorResponses) |-> errorResponses[i].coordinatorOperator]
\* the server of endpoint e has answered (with an approval or a refusal)
Answered(e) == answers[e].verdict \in {"approved", "refused"}
\* the loop of _getCoordinatorApprovalsAsync has run to its end
LoopEnded ==
    AggregationReturned \/ EndedInFillFailed

\* C15 as claimed: requests to distinct authorities are issued concurrently,
\* none waiting for the response to another: no response has been received
\* while a request remains to be issued, and with two authorities both
\* requests are in flight together.
C15_Concurrent ==
    (classDef = 2 /\ pc = "fanout" /\ Len(serverEndpointsToOrders.keys) >= 2
        /\ \E e \in Endpoints : Answered(e))
    => \A e \in SeqToSet(serverEndpointsToOrders.keys) : RequestsTo(e) >= 1

\* C15, amended: requests are issued one at a time in key order, each only
\* after the response to the one before it has been stored: at most one
\* request is in flight; each response is stored once, under its own
\* endpoint, in the approval list or the refusal list; the lists are merged
\* only after every endpoint has answered, the merged signature list being in
\* request order.
C15_OneAtATime ==
    classDef = 2 =>
        LET keys == serverEndpointsToOrders.keys
            requested == RequestOrder
            stored == ApprovedEndpoints \o RefusedEndpoints
        IN /\ Cardinality(inFlight) <= 1
           /\ \A i \in 1..Len(requested) :
                /\ i <= Len(keys)
                /\ requested[i] = keys[i]
                /\ \A j \in 1..(i - 1) : Answered(keys[j])
           /\ \A e \in Endpoints :
                Occurrences(stored, e) = (IF Answered(e) THEN 1 ELSE 0)
           /\ \A i \in 1..Len(approvalResponses) :
                approvalResponses[i].body
                    = answers[approvalResponses[i].coordinatorOperator].body
           /\ pc \notin {"validate", "buildTx", "probe", "sign", "haveTx", "fanout"} =>
                /\ LoopEnded =>
                    /\ inFlight = {}
                    /\ \A i \in 1..Len(keys) : Answered(keys[i])
                /\ AggregationReturned =>
                    /\ ApprovedEndpoints = requested
                    /\ approvals.coordinatorApprovalSignatures = SignaturesSent

\* two authorities, asked one after the other, both answered
C15_Witness ==
    /\ classDef = 2
    /\ LoopEnded
    /\ Len(serverEndpointsToOrders.keys) = 2
    /\ Count("request") = 2
    /\ Len(approvalResponses) + Len(errorResponses) = 2

\* the transaction carries the signer's signature or the wallet marker
IsSigned(tx) == tx.signature \in {EcSignature, WalletMarkerSignature}
\* the operations of the stages behind the transaction builder
AfterSigning(op) ==
    op \in {"mapServerEndpointsToOrders", "request", "callAsync", "sendTransactionAsync"}
\* some event of kind op lies before position i of the log
HasBefore(op, i) == \E j \in 1..(i - 1) : ioLog[j].op = op

\* C16: the stages run in the order build-and-sign, partition, aggregate,
\* assemble: the partition and every approval request come after the signing
\* step and carry the signed (or marker-signed) transaction, every request
\* comes after the partition, and calldata is encoded only after the
\* aggregation has returned success, from the lists it returned.
C16_StageOrder ==
    /\ \A i \in 1..Len(ioLog) :
        /\ AfterSigning(ioLog[i].op) =>
            /\ IsSigned(ioLog[i].tx)
            /\ \/ ioLog[i].tx.signature = EcSignature /\ HasBefore("sign", i)
               \/ /\ ioLog[i].tx.signature = WalletMarkerSignature
                  /\ HasBefore("getContractCode", i)
        /\ (classDef = 2 /\ ioLog[i].op = "request") =>
                HasBefore("mapServerEndpointsToOrders", i)
        /\ ioLog[i].op \in {"sign", "getContractCode"} =>
                \A j \in 1..(i - 1) : ~AfterSigning(ioLog[j].op)
    /\ pc \in {"haveTx", "fanout", "dryRun", "submit", "encode"} => IsSigned(transaction)
    /\ outcome.calldata # <<>> =>
        /\ method = "getCalldata"
        /\ IsSigned(transaction)
        /\ outcome.calldata = <<transaction, transaction.signerAddress, transaction.signature,
                                approvals.coordinatorExpirationTimes,
                                approvals.coordinatorApprovalSignatures>>
        /\ \A e \in Endpoints : RequestsTo(e) >= 1 => answers[e].verdict = "approved"
        /\ classDef = 2 =>
            /\ AggregationReturned
            /\ errorResponses = <<>>
            /\ \A e \in SeqToSet(serverEndpointsToOrders.keys) : RequestsTo(e) = 1
            /\ approvals.coordinatorApprovalSignatures = allSignatures(approvalResponses)

\* calldata was encoded after two authorities approved
C16_Witness ==
    /\ classDef = 2
    /\ outcome.kind = "returned"
    /\ outcome.calldata # <<>>
    /\ Count("sign") = 1
    /\ Count("request") = 2
    /\ Len(approvals.coordinatorApprovalSignatures) >= 2

\* new Error(SwapQuoteConsumerError.TransactionValueTooLow / SignatureRequestDenied)
TransactionValueTooLow == MkError("Error", {"TRANSACTION_VALUE_TOO_LOW"})
SignatureRequestDenied == MkError("Error", {SIGNATURE_REQUEST_DENIED})
\* executeSwapQuoteOrThrowAsync has thrown; outcome.cause is the failure as it
\* arose, outcome.error what the caller gets
ExecuteThrew == method = "execute" /\ pc = "done" /\ outcome.kind = "threw"

\* C17 as claimed: a failure whose message contains the complete-fill-failed
\* revert reason is reported as TransactionValueTooLow, one whose message
\* contains SIGNATURE_REQUEST_DENIED as SignatureRequestDenied, every other
\* failure reaches the caller as the original error, unchanged.
C17_Original ==
    ExecuteThrew =>
        /\ includes(outcome.cause.message, CompleteFillFailed) =>
                outcome.error = TransactionValueTooLow
        /\ includes(outcome.cause.message, SIGNATURE_REQUEST_DENIED) =>
                outcome.error = SignatureRequestDenied
        /\ (~includes(outcome.cause.message, CompleteFillFailed)
            /\ ~includes(outcome.cause.message, SIGNATURE_REQUEST_DENIED)) =>
                outcome.error = outcome.cause

\* C17, amended: the signature denial is looked for first: a failure whose
\* message contains SIGNATURE_REQUEST_DENIED is reported as
\* SignatureRequestDenied (whatever else the message contains); one whose
\* message contains the complete-fill-failed reason and not
\* SIGNATURE_REQUEST_DENIED is reported as TransactionValueTooLow; every other
\* failure reaches the caller as the original error, unchanged.
C17_DenialFirst ==
    ExecuteThrew =>
        /\ includes(outcome.cause.message, SIGNATURE_REQUEST_DENIED) =>
                outcome.error = SignatureRequestDenied
        /\ (includes(outcome.cause.message, CompleteFillFailed)
            /\ ~includes(outcome.cause.message, SIGNATURE_REQUEST_DENIED)) =>
                outcome.error = TransactionValueTooLow
        /\ (~includes(outcome.cause.message, CompleteFillFailed)
            /\ ~includes(outcome.cause.message, SIGNATURE_REQUEST_DENIED)) =>
                outcome.error = outcome.cause

\* the settlement failed with a message holding both fragments
C17_Witness ==
    /\ ExecuteThrew
    /\ Has("callAsync")
    /\ includes(outcome.cause.message, CompleteFillFailed)
    /\ includes(outcome.cause.message, SIGNATURE_REQUEST_DENIED)
    /\ outcome.error = SignatureRequestDenied

\* the orders the partition of this run sends to some authority
OrdersSentForApproval ==
    UNION {SeqToSet(serverEndpointsToOrders.groups[e]) :
                e \in SeqToSet(serverEndpointsToOrders.keys)}

\* C18 as claimed: the partition compares addresses case-normalized: an order
\* whose sender address differs from the coordinator address only in letter
\* case is classified as requiring approval, and the two filters are exact
\* complements: every order falls in exactly one of them.
C18_CaseNormalizedPartition ==
    AggregationStarted =>
        \A i \in 1..Len(Batch) :
            /\ (CaseNormalized(Batch[i].senderAddress) = CaseNormalized(CoordinatorAddress))
                    <=> Batch[i] \in OrdersSentForApproval
            /\ Batch[i] \in SeqToSet(coordinatorOrders(Batch))
                    <=> Batch[i] \notin SeqToSet(notCoordinatorOrders(Batch))

\* the positions of the events of kind op in the log
Positions(op) == {i \in 1..Len(ioLog) : ioLog[i].op = op}

\* C19: executeSwapQuoteOrThrowAsync submits at most once, and only after the
\* aggregation returned success (every requested authority approved) and one
\* dry run with the same transaction and sender went through; a failed dry
\* run is the last step: nothing is submitted, no transaction hash returned.
C19_SubmitAfterDryRun ==
    LET dryRuns == Positions("callAsync")
        submissions == Positions("sendTransactionAsync")
    IN /\ Cardinality(submissions) <= 1
       /\ Cardinality(dryRuns) <= 1
       /\ (dryRuns # {} \/ submissions # {}) =>
            /\ method = "execute"
            /\ \A e \in Endpoints : RequestsTo(e) >= 1 => answers[e].verdict = "approved"
            /\ classDef = 2 => errorResponses = <<>> /\ pending = <<>> /\ inFlight = {}
       /\ \A i \in submissions :
            \E j \in dryRuns :
                /\ j < i
                /\ ioLog[j].tx = ioLog[i].tx
                /\ ioLog[j].origin = ioLog[i].origin
                /\ \A k \in Positions("request") : k < j
       /\ (pc = "done" /\ dryRuns # {} /\ submissions = {}) =>
            /\ outcome.kind = "threw"
            /\ outcome.txHash = ""
       /\ outcome.txHash # "" =>
            /\ Cardinality(dryRuns) = 1
            /\ Cardinality(submissions) = 1
       /\ method = "getCalldata" => (dryRuns = {} /\ submissions = {})

\* a run that submitted after two approvals and the dry run
C19_Witness ==
    /\ classDef = 2
    /\ outcome.txHash # ""
    /\ Count("request") = 2
    /\ Count("callAsync") = 1
    /\ Count("sendTransactionAsync") = 1
    /\ ioLog[Len(ioLog)].op = "sendTransactionAsync"

\* a run whose dry run failed
C19_DryRunFailed ==
    /\ pc = "done"
    /\ Has("callAsync")
    /\ ~Has("sendTransactionAsync")
    /\ outcome.kind = "threw"

\* the steps of a run that name an account: the txOrigin of an approval
\* request of _getCoordinatorApprovalsAsync, the from of the dry run and of
\* the submission
NamesAccount(ev) ==
    \/ classDef = 2 /\ ev.op = "request"
    \/ ev.op \in {"callAsync", "sendTransactionAsync"}

\* C20: the transaction origin sent to each authority, the signer address of
\* the transaction, the caller's taker address and the from account of the
\* dry run and of the submission are one and the same address in every step
\* of a run.
C20_OneAccount ==
    /\ transaction # NoTx =>
        /\ transaction.signerAddress = takerAddress
        /\ isETHAddressHex(takerAddress)
    /\ \A i \in 1..Len(ioLog) :
        /\ NamesAccount(ioLog[i]) =>
            /\ ioLog[i].origin = ioLog[i].tx.signerAddress
            /\ ioLog[i].tx.signerAddress = takerAddress
        /\ ioLog[i].op = "sign" => ioLog[i].target = takerAddress
    /\ outcome.calldata # <<>> => outcome.calldata[2] = takerAddress

\* a run that asked two authorities, made the dry run and submitted
C20_Witness ==
    /\ classDef = 2
    /\ pc = "done"
    /\ outcome.kind = "returned"
    /\ \E i, j \in Positions("request") : ioLog[i].target # ioLog[j].target
    /\ Has("callAsync")
    /\ Has("sendTransactionAsync")
    /\ \A i \in 1..Len(ioLog) : NamesAccount(ioLog[i]) => ioLog[i].origin = takerAddress

\* the orders the data of the transaction references
EncodedOrders ==
    SelectSeq(Batch, LAMBDA o : o.id \in SeqToSet(transaction.data))
\* the endpoints of the authorities some encoded order names
EncodedEndpoints ==
    {Registry[o.feeRecipientAddress] :
        o \in {x \in SeqToSet(EncodedOrders) : x.senderAddress = CoordinatorAddress}}

\* C21 as claimed: approvals are gathered only for orders the data of the
\* transaction references: every order sent to an authority is an encoded
\* order, and every aggregated signature (with its expiration) comes from an
\* authority that an encoded order names, so an authority named by a fee
\* order alone contributes nothing to the aggregated lists.
C21_OnlyEncodedOrders ==
    AggregationReturned =>
        LET sigs == approvals.coordinatorApprovalSignatures
            exps == approvals.coordinatorExpirationTimes
        IN /\ OrdersSentForApproval \subseteq SeqToSet(EncodedOrders)
           /\ \A i \in 1..Len(sigs) : sigs[i][2] \in EncodedEndpoints
           /\ Len(exps) = Len(sigs)
           /\ \A e \in Endpoints : RequestsTo(e) >= 1 => e \in EncodedEndpoints

====
